---- MODULE Spec2Model ----
(***************************************************************************)
(* Canary deployment control plane of the churn prediction service.        *)
(*                                                                         *)
(* Scheduling, as the code sets it up: the admin handlers of               *)
(* app/api/admin.py are coroutines without an await, so they run one at a  *)
(* time on the single event loop thread (variable loop); route_prediction  *)
(* runs on the threads of the ThreadPoolExecutor of app/api/predict.py     *)
(* (variable worker, one record per pool thread of Workers) and            *)
(* interleaves with the handlers.                                          *)
(*                                                                         *)
(* admin.py and inference.py enter "with state.state_lock" and             *)
(* "with state.metrics_lock"; app/core/state.py does not define these two  *)
(* names. They are taken to be the two mutexes section 5 of the            *)
(* specification describes: a with-block is one indivisible step, the code *)
(* between two with-blocks is its own step.                                *)
(*                                                                         *)
(* Units: latencies are integers in 1/100 ms, p-values in 1/10000.         *)
(***************************************************************************)
EXTENDS Integers, Sequences, FiniteSets, TLC

VARIABLES stable_model_path, canary_model_path, model_cache, loads,
          canary_start_time, canary_metrics, alert_status, simulate_slowdown,
          loop, pre, result, worker, requests, calls, served

vars == <<stable_model_path, canary_model_path, model_cache, loads,
          canary_start_time, canary_metrics, alert_status, simulate_slowdown,
          loop, pre, result, worker, requests, calls, served>>

(* ------------------------------ bounds ------------------------------- *)
MaxRequests == 2

(* --------------------------- values, files --------------------------- *)
\* Python's None for paths, handles and times; also the empty string,
\* which "not model_path" treats alike.
None == <<>>

\* A path is its sequence of components.
V1 == <<"models", "model_v1.joblib">>
V2 == <<"models", "model_v2.joblib">>
Broken == <<"models", "broken.joblib">>
Absent == <<"models", "absent.joblib">>

DeployPaths == {V2, Broken, Absent}
AllPaths == {V1, V2, Broken, Absent}

\* os.path.exists(p)
Exists(p) == p \in {V1, V2, Broken}
\* joblib.load(p) returns an object (otherwise it raises)
Loadable(p) == p \in {V1, V2}

\* os.path.basename
Basename(p) == IF p = None THEN None ELSE <<p[Len(p)]>>

Workers == {"w1"}
TimestampsMs == {1000, 1003}
Times == {1, 2}
BaseLatencies == {100, 120}
SlowdownDelay == 1000
MinSamples == 20

EmptyDict == [k \in {} |-> FALSE]
\* state.alert_status.get("alert_triggered", False)
AlertFlag(d) == IF "alert_triggered" \in DOMAIN d THEN d["alert_triggered"] ELSE FALSE

EmptyMetrics == [stable |-> <<>>, canary |-> <<>>]

(* ------------------------- Model Variant Store ------------------------ *)
\* get_model without the cache lookup of state.py 33
get_model_uncached(c, l, path) ==
    IF path = None
    THEN [raised |-> FALSE, value |-> None, cache |-> c, loads |-> l]
    ELSE IF Loadable(path)
    THEN LET h == <<path, l[path] + 1>>
         IN [raised |-> FALSE, value |-> h,
             cache |-> [q \in DOMAIN c \cup {path} |-> IF q = path THEN h ELSE c[q]],
             loads |-> [l EXCEPT ![path] = @ + 1]]
    ELSE [raised |-> TRUE, value |-> None, cache |-> c, loads |-> l]

\* ModelManager.get_model: the outcome of one call made with cache c and
\* load counts l. A handle is <<path, number of the load that made it>>.
get_model(c, l, path) ==
    IF path = None
    THEN [raised |-> FALSE, value |-> None, cache |-> c, loads |-> l]
    ELSE IF path \in DOMAIN c
    THEN [raised |-> FALSE, value |-> c[path], cache |-> c, loads |-> l]
    ELSE IF Loadable(path)
    THEN LET h == <<path, l[path] + 1>>
         IN [raised |-> FALSE, value |-> h,
             cache |-> [q \in DOMAIN c \cup {path} |-> IF q = path THEN h ELSE c[q]],
             loads |-> [l EXCEPT ![path] = @ + 1]]
    ELSE [raised |-> TRUE, value |-> None, cache |-> c, loads |-> l]

\* state.stable_model() / state.canary_model()
stable_model == get_model(model_cache, loads, stable_model_path)
canary_model == get_model(model_cache, loads, canary_model_path)

(* ------------------------------- Init --------------------------------- *)
IdleLoop == [pc |-> "idle", previous_stable_model |-> None, canary_path |-> None,
             model_path |-> None]
IdleWorker == [pc |-> "idle", timestamp |-> 0, features_ok |-> TRUE,
               active |-> FALSE, use_canary |-> FALSE, model |-> None,
               model_name |-> "none", latency |-> 0, out |-> "none"]
Snapshot == [stable |-> stable_model_path, canary |-> canary_model_path,
             start |-> canary_start_time, alert |-> AlertFlag(alert_status)]
NoResult == [op |-> "none", status |-> "none"]

\* Threads inside ModelManager.get_model, for the step-by-step reading of
\* the method (SpecCache); Spec takes a whole call as one step.
GetThreads == {"t1", "t2", "t3"}
IdleCall == [pc |-> "idle", path |-> None, value |-> None, raised |-> FALSE]
\* Responses route_prediction has returned since the latency sequences were
\* last reset: how many, and how many of them had timestamp % 10 = 0.
NoServed == [total |-> 0, tenth |-> 0]

Init ==
    /\ stable_model_path = V1
    /\ canary_model_path = None
    /\ model_cache = [p \in {} |-> None]
    /\ loads = [p \in AllPaths |-> 0]
    /\ canary_start_time = None
    /\ canary_metrics = EmptyMetrics
    /\ alert_status = EmptyDict
    /\ simulate_slowdown = FALSE
    /\ loop = IdleLoop
    /\ pre = [stable |-> V1, canary |-> None, start |-> None, alert |-> FALSE]
    /\ result = NoResult
    /\ worker = [w \in Workers |-> IdleWorker]
    /\ requests = 0
    /\ calls = [t \in GetThreads |-> IdleCall]
    /\ served = NoServed

deployVars == <<stable_model_path, canary_model_path, canary_start_time,
                alert_status, simulate_slowdown>>

(* ------------------------- Admin: deploy ------------------------------ *)
\* admin.py 36-47: existence check, path assignment, test load.
deploy_canary(path) ==
    /\ loop.pc = "idle"
    /\ UNCHANGED <<calls, served>>
    /\ pre' = Snapshot
    /\ UNCHANGED <<stable_model_path, canary_start_time, canary_metrics,
                   alert_status, simulate_slowdown, worker, requests>>
    /\ IF ~Exists(path)
       THEN /\ result' = [op |-> "deploy", status |-> "http_404"]
            /\ UNCHANGED <<canary_model_path, model_cache, loads, loop>>
       ELSE /\ canary_model_path' = path
            /\ LET r == get_model(model_cache, loads, path)
               IN /\ model_cache' = r.cache
                  /\ loads' = r.loads
                  /\ IF r.raised
                     THEN /\ result' = [op |-> "deploy", status |-> "http_400"]
                          /\ UNCHANGED loop
                     ELSE /\ result' = NoResult
                          /\ loop' = [IdleLoop EXCEPT !.pc = "deploy_state",
                                                      !.model_path = path]

\* admin.py 50-52: with state.state_lock
deploy_state(now) ==
    /\ loop.pc = "deploy_state"
    /\ UNCHANGED <<calls, served>>
    /\ canary_start_time' = <<now>>
    /\ alert_status' = EmptyDict
    /\ loop' = [loop EXCEPT !.pc = "deploy_metrics"]
    /\ UNCHANGED <<stable_model_path, canary_model_path, model_cache, loads,
                   canary_metrics, simulate_slowdown, pre, result, worker, requests>>

\* admin.py 55-67: with state.metrics_lock, then the response
deploy_metrics ==
    /\ loop.pc = "deploy_metrics"
    /\ served' = NoServed
    /\ UNCHANGED calls
    /\ canary_metrics' = EmptyMetrics
    /\ result' = [op |-> "deploy", status |-> "success",
                  model_path |-> loop.model_path,
                  canary_start_time |-> canary_start_time]
    /\ loop' = IdleLoop
    /\ UNCHANGED <<deployVars, model_cache, loads, pre, worker, requests>>

\* an activity test that never finds the canary missing
no_canary_never(model) == FALSE

\* admin.py 80, 117: state.canary_model() is None
no_canary(model) == model = None

\* the gate reading a key that is never written
alert_gate_other_key(d) == IF "alert" \in DOMAIN d THEN d["alert"] ELSE FALSE

\* admin.py 124: state.alert_status.get("alert_triggered", False)
alert_gate(d) == AlertFlag(d)

(* ------------------------- Admin: rollback ---------------------------- *)
\* admin.py 80-87: active check through canary_model(), then the path is
\* cleared outside any lock.
rollback_canary ==
    /\ loop.pc = "idle"
    /\ UNCHANGED <<calls, served>>
    /\ pre' = Snapshot
    /\ UNCHANGED <<stable_model_path, canary_start_time, canary_metrics,
                   alert_status, simulate_slowdown, worker, requests>>
    /\ LET r == canary_model
       IN /\ model_cache' = r.cache
          /\ loads' = r.loads
          /\ IF r.raised
             THEN /\ result' = [op |-> "rollback", status |-> "exception"]
                  /\ UNCHANGED <<canary_model_path, loop>>
             ELSE IF no_canary(r.value)
             THEN /\ result' = [op |-> "rollback", status |-> "error",
                                message |-> "No active canary to rollback"]
                  /\ UNCHANGED <<canary_model_path, loop>>
             ELSE /\ canary_model_path' = None
                  /\ result' = NoResult
                  /\ loop' = [IdleLoop EXCEPT !.pc = "rollback_state"]

\* admin.py 89-91: with state.state_lock
rollback_state ==
    /\ loop.pc = "rollback_state"
    /\ UNCHANGED <<calls, served>>
    /\ canary_start_time' = None
    /\ alert_status' = EmptyDict
    /\ loop' = [loop EXCEPT !.pc = "rollback_metrics"]
    /\ UNCHANGED <<stable_model_path, canary_model_path, model_cache, loads,
                   canary_metrics, simulate_slowdown, pre, result, worker, requests>>

\* rollback that clears the canary samples only
rollback_metrics_canary_only ==
    /\ loop.pc = "rollback_metrics"
    /\ served' = NoServed
    /\ UNCHANGED calls
    /\ canary_metrics' = [canary_metrics EXCEPT !.canary = <<>>]
    /\ result' = [op |-> "rollback", status |-> "success"]
    /\ loop' = IdleLoop
    /\ UNCHANGED <<deployVars, model_cache, loads, pre, worker, requests>>

\* admin.py 93-103: with state.metrics_lock, then the response
rollback_metrics ==
    /\ loop.pc = "rollback_metrics"
    /\ served' = NoServed
    /\ UNCHANGED calls
    /\ canary_metrics' = EmptyMetrics
    /\ result' = [op |-> "rollback", status |-> "success"]
    /\ loop' = IdleLoop
    /\ UNCHANGED <<deployVars, model_cache, loads, pre, worker, requests>>

(* ------------------------- Admin: promote ----------------------------- *)
\* admin.py 117-141: active check, alert gate, then both paths are written
\* outside any lock.
promote_canary ==
    /\ loop.pc = "idle"
    /\ UNCHANGED <<calls, served>>
    /\ pre' = Snapshot
    /\ UNCHANGED <<canary_start_time, canary_metrics, alert_status,
                   simulate_slowdown, worker, requests>>
    /\ LET r == canary_model
       IN /\ model_cache' = r.cache
          /\ loads' = r.loads
          /\ IF r.raised
             THEN /\ result' = [op |-> "promote", status |-> "exception"]
                  /\ UNCHANGED <<stable_model_path, canary_model_path, loop>>
             ELSE IF no_canary(r.value)
             THEN /\ result' = [op |-> "promote", status |-> "error",
                                message |-> "No active canary to promote"]
                  /\ UNCHANGED <<stable_model_path, canary_model_path, loop>>
             ELSE IF alert_gate(alert_status)
             THEN /\ result' = [op |-> "promote", status |-> "error",
                                message |-> "Cannot promote canary with active alerts"]
                  /\ UNCHANGED <<stable_model_path, canary_model_path, loop>>
             ELSE /\ stable_model_path' = canary_model_path
                  /\ canary_model_path' = None
                  /\ result' = NoResult
                  /\ loop' = [IdleLoop EXCEPT !.pc = "promote_state",
                                !.previous_stable_model = stable_model_path,
                                !.canary_path = canary_model_path]

\* admin.py 143-145: with state.state_lock
promote_state ==
    /\ loop.pc = "promote_state"
    /\ UNCHANGED <<calls, served>>
    /\ canary_start_time' = None
    /\ alert_status' = EmptyDict
    /\ loop' = [loop EXCEPT !.pc = "promote_metrics"]
    /\ UNCHANGED <<stable_model_path, canary_model_path, model_cache, loads,
                   canary_metrics, simulate_slowdown, pre, result, worker, requests>>

\* admin.py 147-159: with state.metrics_lock, then the response
promote_metrics ==
    /\ loop.pc = "promote_metrics"
    /\ served' = NoServed
    /\ UNCHANGED calls
    /\ canary_metrics' = EmptyMetrics
    /\ result' = [op |-> "promote", status |-> "success",
                  previous_stable_model |-> Basename(loop.previous_stable_model),
                  new_stable_model |-> Basename(loop.canary_path)]
    /\ loop' = IdleLoop
    /\ UNCHANGED <<deployVars, model_cache, loads, pre, worker, requests>>

\* a switch that can only be turned on
toggle_slowdown_on ==
    /\ loop.pc = "idle"
    /\ UNCHANGED <<calls, served>>
    /\ pre' = Snapshot
    /\ simulate_slowdown' = TRUE
    /\ result' = [op |-> "toggle", status |-> "success",
                  simulate_slowdown |-> TRUE]
    /\ UNCHANGED <<stable_model_path, canary_model_path, model_cache, loads,
                   canary_start_time, canary_metrics, alert_status, loop,
                   worker, requests>>

\* admin.py 173-185
toggle_slowdown ==
    /\ loop.pc = "idle"
    /\ UNCHANGED <<calls, served>>
    /\ pre' = Snapshot
    /\ simulate_slowdown' = ~simulate_slowdown
    /\ result' = [op |-> "toggle", status |-> "success",
                  simulate_slowdown |-> ~simulate_slowdown]
    /\ UNCHANGED <<stable_model_path, canary_model_path, model_cache, loads,
                   canary_start_time, canary_metrics, alert_status, loop,
                   worker, requests>>

(* --------------------------- Health Checker --------------------------- *)
RECURSIVE SumSeq(_)
SumSeq(s) == IF s = <<>> THEN 0 ELSE Head(s) + SumSeq(Tail(s))

\* Outcomes of scipy.stats.ttest_ind(..., equal_var=False): the p-value in
\* 1/10000, or NaN (samples without variance). The library is outside the
\* repository; any of these may come back.
NaN == 0 - 1
PValues == {0, 499, 500, 10000, NaN}
\* p_value < 0.05 (a comparison with NaN is false)
PBelowAlpha(p) == p # NaN /\ p < 500

\* canary_avg > stable_avg on the exact means
MeanGreater(c, s) == SumSeq(c) * Len(s) > SumSeq(s) * Len(c)

\* round(x / d, 0) as Python rounds: half to even
RoundDiv(x, d) ==
    LET q == x \div d
        r == x % d
    IN IF 2 * r > d \/ (2 * r = d /\ q % 2 = 1) THEN q + 1 ELSE q

\* round(float(p_value), 3), in 1/1000
RoundP(p) == IF p = NaN THEN NaN ELSE RoundDiv(p, 10)
\* round(float(np.mean(xs)), 1), in 1/10 ms
RoundAvg(xs) == RoundDiv(SumSeq(xs), 10 * Len(xs))

\* stats.py 24: "state.canary_model is None" tests the module-level function
\* canary_model of state.py 78-79 itself, which is never None.
canary_model_is_None == FALSE

\* the threshold taken as exclusive
insufficient_exclusive(stable_count, canary_count) ==
    stable_count <= MinSamples \/ canary_count <= MinSamples

\* stats.py 38
insufficient(stable_count, canary_count) ==
    stable_count < MinSamples \/ canary_count < MinSamples

\* the decision taken on the rounded figures of the report
alert_condition_rounded(p, c, s) ==
    /\ p # NaN
    /\ RoundP(p) * 10 < 500
    /\ RoundAvg(c) > RoundAvg(s)

\* stats.py 54
alert_condition(p, c, s) == PBelowAlpha(p) /\ MeanGreater(c, s)

\* stats.py 12-74, run by the endpoint of admin.py 187-197
check_canary_health(p) ==
    /\ loop.pc = "idle"
    /\ UNCHANGED <<calls, served>>
    /\ pre' = Snapshot
    /\ UNCHANGED <<stable_model_path, canary_model_path, model_cache, loads,
                   canary_start_time, canary_metrics, simulate_slowdown, loop,
                   worker, requests>>
    /\ LET stable_latencies == canary_metrics.stable
           canary_latencies == canary_metrics.canary
           stable_count == Len(stable_latencies)
           canary_count == Len(canary_latencies)
       IN IF canary_model_is_None
          THEN /\ result' = [op |-> "check", status |-> "success",
                             message |-> "no_canary", tested |-> FALSE,
                             alert_triggered |-> FALSE]
               /\ UNCHANGED alert_status
          ELSE IF insufficient(stable_count, canary_count)
          THEN /\ result' = [op |-> "check", status |-> "success",
                             message |-> "insufficient", tested |-> FALSE,
                             alert_triggered |-> FALSE,
                             stable_sample_count |-> stable_count,
                             canary_sample_count |-> canary_count]
               /\ UNCHANGED alert_status
          ELSE LET alert_triggered ==
                       alert_condition(p, canary_latencies, stable_latencies)
               IN /\ alert_status' =
                        [k \in DOMAIN alert_status \cup {"alert_triggered"} |->
                            alert_triggered]
                  /\ result' = [op |-> "check", status |-> "success",
                                message |-> IF alert_triggered THEN "alert"
                                            ELSE "acceptable",
                                tested |-> TRUE,
                                alert_triggered |-> alert_triggered,
                                t_test_p |-> p,
                                p_value |-> RoundP(p),
                                stable_avg_latency_ms |-> RoundAvg(stable_latencies),
                                canary_avg_latency_ms |-> RoundAvg(canary_latencies),
                                stable_sample_count |-> stable_count,
                                canary_sample_count |-> canary_count]

(* ------------------------- Status endpoint ---------------------------- *)
\* state.py 71-72: module attributes bound once, when the module is
\* imported, to the values the manager's properties had then; nothing
\* assigns them again.
module_stable_model_path == V1
module_canary_model_path == None

\* main.py 20-30
root ==
    /\ loop.pc = "idle"
    /\ UNCHANGED <<calls, served>>
    /\ pre' = Snapshot
    /\ result' = [op |-> "status", status |-> "success",
                  stable_model |-> module_stable_model_path,
                  canary_model |-> module_canary_model_path,
                  canary_active |-> ~canary_model_is_None]
    /\ UNCHANGED <<deployVars, model_cache, loads, canary_metrics, loop,
                   worker, requests>>

(* ------------------------- Admin: slowdown ---------------------------- *)
(* ------------------------------- Router ------------------------------- *)
\* the split without the timestamp test
use_canary_all_traffic(model, ts) == model # None

\* inference.py 34
use_canary_rule(model, ts) == model # None /\ ts % 10 = 0

\* inference.py 28-34: timestamp and the canary decision
route_prediction(w, ts, ok) ==
    /\ worker[w].pc = "idle"
    /\ UNCHANGED <<calls, served>>
    /\ requests < MaxRequests
    /\ requests' = requests + 1
    /\ LET r == canary_model
       IN /\ model_cache' = r.cache
          /\ loads' = r.loads
          /\ worker' = [worker EXCEPT ![w] =
                IF r.raised
                THEN [IdleWorker EXCEPT !.timestamp = ts, !.out = "exception",
                                        !.active = canary_model_path # None]
                ELSE [IdleWorker EXCEPT !.pc = "resolve", !.timestamp = ts,
                        !.features_ok = ok,
                        !.active = canary_model_path # None,
                        !.use_canary = use_canary_rule(r.value, ts)]]
    /\ UNCHANGED <<deployVars, canary_metrics, loop, pre, result>>

\* inference.py 35-36: the model lookup, a second call of the accessor
route_resolve(w) ==
    /\ worker[w].pc = "resolve"
    /\ UNCHANGED <<calls, served>>
    /\ LET r == IF worker[w].use_canary THEN canary_model ELSE stable_model
       IN /\ model_cache' = r.cache
          /\ loads' = r.loads
          /\ worker' = [worker EXCEPT ![w] =
                IF r.raised
                THEN [IdleWorker EXCEPT !.out = "exception",
                        !.timestamp = worker[w].timestamp,
                        !.active = worker[w].active]
                ELSE [@ EXCEPT !.pc = "predict", !.model = r.value,
                        !.model_name = IF worker[w].use_canary THEN "canary"
                                        ELSE "stable"]]
    /\ UNCHANGED <<deployVars, canary_metrics, loop, pre, result, requests>>

\* the latency filed before the prediction has succeeded
route_predict_records_first(w, base) ==
    /\ worker[w].pc = "predict"
    /\ UNCHANGED <<calls, served>>
    /\ IF worker[w].model = None \/ ~worker[w].features_ok
       THEN /\ worker' = [worker EXCEPT ![w] =
                   [IdleWorker EXCEPT !.out = "exception",
                      !.timestamp = worker[w].timestamp,
                      !.active = worker[w].active]]
            /\ canary_metrics' = [canary_metrics EXCEPT ![worker[w].model_name] =
                                      Append(@, base)]
       ELSE /\ worker' = [worker EXCEPT ![w] =
                   [@ EXCEPT !.pc = "record",
                      !.latency = base + (IF worker[w].use_canary /\ simulate_slowdown
                                          THEN SlowdownDelay ELSE 0)]]
            /\ UNCHANGED canary_metrics
    /\ UNCHANGED <<deployVars, model_cache, loads, loop, pre, result, requests>>

\* inference.py 44-66: optional sleep, predict_proba, measured latency
route_predict(w, base) ==
    /\ worker[w].pc = "predict"
    /\ UNCHANGED <<calls, served>>
    /\ worker' = [worker EXCEPT ![w] =
          IF @.model = None \/ ~@.features_ok
          THEN [IdleWorker EXCEPT !.out = "exception",
                  !.timestamp = worker[w].timestamp,
                  !.active = worker[w].active]
          ELSE [@ EXCEPT !.pc = "record",
                  !.latency = base + (IF worker[w].use_canary /\ simulate_slowdown
                                      THEN SlowdownDelay ELSE 0)]]
    /\ UNCHANGED <<deployVars, model_cache, loads, canary_metrics, loop, pre,
                   result, requests>>

\* every sample filed under the stable variant
route_record_to_stable(w) ==
    /\ worker[w].pc = "record"
    /\ served' = [total |-> served.total + 1,
                   tenth |-> served.tenth +
                             (IF worker[w].timestamp % 10 = 0 THEN 1 ELSE 0)]
    /\ UNCHANGED calls
    /\ canary_metrics' = [canary_metrics EXCEPT !.stable =
                              Append(@, worker[w].latency)]
    /\ worker' = [worker EXCEPT ![w] = [@ EXCEPT !.pc = "idle", !.out = "ok"]]
    /\ UNCHANGED <<deployVars, model_cache, loads, loop, pre, result, requests>>

\* inference.py 69-80: the append under state.metrics_lock and the response
route_record(w) ==
    /\ worker[w].pc = "record"
    /\ served' = [total |-> served.total + 1,
                   tenth |-> served.tenth +
                             (IF worker[w].timestamp % 10 = 0 THEN 1 ELSE 0)]
    /\ UNCHANGED calls
    /\ canary_metrics' = [canary_metrics EXCEPT ![worker[w].model_name] =
                              Append(@, worker[w].latency)]
    /\ worker' = [worker EXCEPT ![w] = [@ EXCEPT !.pc = "idle", !.out = "ok"]]
    /\ UNCHANGED <<deployVars, model_cache, loads, loop, pre, result, requests>>

Next ==
    \/ \E path \in DeployPaths : deploy_canary(path)
    \/ \E now \in Times : deploy_state(now)
    \/ deploy_metrics
    \/ rollback_canary \/ rollback_state \/ rollback_metrics
    \/ promote_canary \/ promote_state \/ promote_metrics
    \/ toggle_slowdown
    \/ root
    \/ \E p \in PValues : check_canary_health(p)
    \/ \E w \in Workers, ts \in TimestampsMs, ok \in BOOLEAN :
          route_prediction(w, ts, ok)
    \/ \E w \in Workers : route_resolve(w)
    \/ \E w \in Workers, base \in BaseLatencies : route_predict(w, base)
    \/ \E w \in Workers : route_record(w)

Spec == Init /\ [][Next]_vars

(* ----------------- a canary that has been serving traffic ------------- *)
\* n samples: n - 1 of x, then one of y
Fill(n, x, y) == [i \in 1..n |-> IF i < n THEN x ELSE y]

\* Latency histories of a canary deployed on V2 that has served requests up
\* to the neighbourhood of the health check's sample threshold.
ServedMetrics ==
    { [stable |-> Fill(ns, 100, ys), canary |-> Fill(nc, 100, yc)] :
        ns \in {MinSamples - 1, MinSamples}, ys \in {100},
        nc \in {MinSamples - 1, MinSamples}, yc \in BaseLatencies }

\* The state Deploy(V2) and those requests leave behind; the environment
\* has one request left before it reaches MaxRequests.
InitServing ==
    /\ stable_model_path = V1
    /\ canary_model_path = V2
    /\ model_cache = [p \in {V1, V2} |-> <<p, 1>>]
    /\ loads = [p \in AllPaths |-> IF p \in {V1, V2} THEN 1 ELSE 0]
    /\ canary_start_time = <<1>>
    /\ canary_metrics \in ServedMetrics
    /\ alert_status = EmptyDict
    /\ simulate_slowdown = FALSE
    /\ loop = IdleLoop
    /\ pre = [stable |-> V1, canary |-> None, start |-> None, alert |-> FALSE]
    /\ result = [op |-> "deploy", status |-> "success", model_path |-> V2,
                 canary_start_time |-> <<1>>]
    /\ worker = [w \in Workers |-> IdleWorker]
    /\ requests = MaxRequests - 1
    /\ calls = [t \in GetThreads |-> IdleCall]
    /\ served = NoServed

SpecServing == InitServing /\ [][Next]_vars

(* ------------- traffic on a deployed canary, no transition ------------ *)
\* The state a successful Deploy(V2) returns in, before any request.
InitDeployed ==
    /\ stable_model_path = V1
    /\ canary_model_path = V2
    /\ model_cache = [p \in {V2} |-> <<p, 1>>]
    /\ loads = [p \in AllPaths |-> IF p = V2 THEN 1 ELSE 0]
    /\ canary_start_time = <<1>>
    /\ canary_metrics = EmptyMetrics
    /\ alert_status = EmptyDict
    /\ simulate_slowdown = FALSE
    /\ loop = IdleLoop
    /\ pre = [stable |-> V1, canary |-> None, start |-> None, alert |-> FALSE]
    /\ result = [op |-> "deploy", status |-> "success", model_path |-> V2,
                 canary_start_time |-> <<1>>]
    /\ worker = [w \in Workers |-> IdleWorker]
    /\ requests = 0
    /\ calls = [t \in GetThreads |-> IdleCall]
    /\ served = NoServed

\* Requests, slowdown toggles, health checks and status reads; no Deploy,
\* Rollback or Promote.
NextTraffic ==
    \/ \E w \in Workers, ts \in TimestampsMs, ok \in BOOLEAN :
          route_prediction(w, ts, ok)
    \/ \E w \in Workers : route_resolve(w)
    \/ \E w \in Workers, base \in BaseLatencies : route_predict(w, base)
    \/ \E w \in Workers : route_record(w)
    \/ toggle_slowdown
    \/ \E p \in PValues : check_canary_health(p)
    \/ root

SpecTraffic == InitDeployed /\ [][NextTraffic]_vars

(* ------------- ModelManager.get_model, statement by statement --------- *)
otherVars == <<stable_model_path, canary_model_path, canary_start_time,
               canary_metrics, alert_status, simulate_slowdown, loop, pre,
               result, worker, requests, served>>

\* state.py 30-33: the None test and the cache lookup
get_model_enter(t, path) ==
    /\ calls[t].pc \in {"idle", "done"}
    /\ calls' = [calls EXCEPT ![t] =
          IF path = None
          THEN [pc |-> "done", path |-> path, value |-> None, raised |-> FALSE]
          ELSE IF path \in DOMAIN model_cache
          THEN [pc |-> "return", path |-> path, value |-> None, raised |-> FALSE]
          ELSE [pc |-> "load", path |-> path, value |-> None, raised |-> FALSE]]
    /\ UNCHANGED <<model_cache, loads, otherVars>>

\* state.py 34-39: joblib.load and the store into the cache; no lock is
\* taken between the lookup and this statement
get_model_load(t) ==
    /\ calls[t].pc = "load"
    /\ LET path == calls[t].path
           h == <<path, loads[path] + 1>>
       IN IF Loadable(path)
          THEN /\ loads' = [loads EXCEPT ![path] = @ + 1]
               /\ model_cache' = [q \in DOMAIN model_cache \cup {path} |->
                                    IF q = path THEN h ELSE model_cache[q]]
               /\ calls' = [calls EXCEPT ![t].pc = "return"]
          ELSE /\ calls' = [calls EXCEPT ![t].pc = "done", ![t].raised = TRUE]
               /\ UNCHANGED <<model_cache, loads>>
    /\ UNCHANGED otherVars

\* state.py 40: the cache is read again for the return value
get_model_return(t) ==
    /\ calls[t].pc = "return"
    /\ calls' = [calls EXCEPT ![t].pc = "done",
                              ![t].value = model_cache[calls[t].path]]
    /\ UNCHANGED <<model_cache, loads, otherVars>>

\* Pool threads calling state.stable_model() / state.canary_model()
\* (inference.py 34-35) on a freshly started process.
NextCache ==
    \/ \E t \in GetThreads : get_model_enter(t, stable_model_path)
    \/ \E t \in GetThreads : get_model_enter(t, canary_model_path)
    \/ \E t \in GetThreads : get_model_load(t)
    \/ \E t \in GetThreads : get_model_return(t)

SpecCache == Init /\ [][NextCache]_vars

(* ============================== Claims ================================ *)
Deploying == \E path \in DeployPaths : deploy_canary(path)
Checking == \E p \in PValues : check_canary_health(p)
SameDeployment ==
    /\ stable_model_path' = stable_model_path
    /\ canary_model_path' = canary_model_path
    /\ canary_start_time' = canary_start_time
    /\ AlertFlag(alert_status') = AlertFlag(alert_status)
    /\ canary_metrics' = canary_metrics

\* C1: a Deploy rejected for a missing or unloadable file leaves the canary
\* path, start time, alert flag, stable path and both latency sequences as
\* they were, also when another canary is active.
C1_RejectedDeployLeavesState ==
    [][(Deploying /\ result'.status \in {"http_404", "http_400"})
          => SameDeployment]_vars

\* C2: Promote with an active canary and the alert flag set, or with no
\* canary, returns a reported error and changes nothing.
C2_PromoteRefusedReported ==
    [][(promote_canary /\ (canary_model_path = None \/ AlertFlag(alert_status)))
          => (result'.status = "error" /\ SameDeployment)]_vars

\* C3: Promote with canary p active and no alert succeeds: stable path p,
\* canary path and start time None, alert flag false, and the response names
\* the basenames of the old stable path and of p.
C3_PromoteSucceeds ==
    (result.op = "promote" /\ loop.pc = "idle" /\ pre.canary # None /\ ~pre.alert)
      => /\ result.status = "success"
         /\ stable_model_path = pre.canary
         /\ canary_model_path = None
         /\ canary_start_time = None
         /\ ~AlertFlag(alert_status)
         /\ result.previous_stable_model = Basename(pre.stable)
         /\ result.new_stable_model = Basename(pre.canary)

C5_NoAlertWithoutCanary ==
    canary_model_path = None => ~AlertFlag(alert_status)

\* C6: a request is reported as served by 'canary' exactly when a canary was
\* active at its routing decision and its millisecond timestamp is divisible
\* by 10, and by 'stable' otherwise.
C6_RoutingRule ==
    \A w \in Workers :
        worker[w].pc = "record" \/ worker[w].out = "ok"
          => /\ worker[w].model_name \in {"canary", "stable"}
             /\ worker[w].model_name = "canary"
                  <=> (worker[w].active /\ worker[w].timestamp % 10 = 0)

\* both variants have been reported: a canary request done, with a stable
\* sample recorded by an earlier one
C6_Witness ==
    \E w \in Workers :
        /\ worker[w].out = "ok" /\ worker[w].model_name = "canary"
        /\ worker[w].timestamp = 1000
        /\ Len(canary_metrics.stable) > 0 /\ Len(canary_metrics.canary) > 0

\* C7: checkHealth with no active canary reports "no active deployment to
\* monitor" with alert_triggered false, runs no test and does not write the
\* alert flag.
C7_NoCanaryNoTest ==
    [][(Checking /\ canary_model_path = None)
          => /\ result'.message = "no_canary"
             /\ ~result'.alert_triggered
             /\ ~result'.tested
             /\ alert_status' = alert_status]_vars

\* C8: with a canary active, checkHealth reports insufficient data with the
\* current counts, runs no test and leaves the stored alert flag alone when
\* either sequence has fewer than 20 samples; with 20 or more in both the
\* test is performed.
C8_SampleThreshold ==
    [][(Checking /\ canary_model_path # None)
          => IF Len(canary_metrics.stable) < 20 \/ Len(canary_metrics.canary) < 20
             THEN /\ result'.message = "insufficient"
                  /\ ~result'.tested
                  /\ result'.stable_sample_count = Len(canary_metrics.stable)
                  /\ result'.canary_sample_count = Len(canary_metrics.canary)
                  /\ alert_status' = alert_status
             ELSE result'.tested]_vars

\* the test has run on exactly 20 samples of each variant
C8_Witness ==
    /\ result.op = "check" /\ result.tested
    /\ result.stable_sample_count = 20 /\ result.canary_sample_count = 20
    /\ canary_model_path # None

\* C9: when the test is performed, the stored alert flag and the returned
\* alert_triggered both equal (p_value < 0.05 and canary mean > stable mean)
\* on the unrounded values; a check whose condition is false clears a flag
\* an earlier check set.
C9_AlertDecision ==
    [][\A p \in PValues :
         (check_canary_health(p) /\ result'.tested)
           => LET cond == /\ p # NaN
                          /\ p < 500
                          /\ SumSeq(canary_metrics.canary) * Len(canary_metrics.stable)
                               > SumSeq(canary_metrics.stable) * Len(canary_metrics.canary)
              IN /\ result'.alert_triggered = cond
                 /\ "alert_triggered" \in DOMAIN alert_status'
                 /\ alert_status'["alert_triggered"] = cond]_vars

\* a check has cleared the flag an earlier check had set
C9_Witness ==
    /\ result.op = "check" /\ result.tested /\ ~result.alert_triggered
    /\ pre.alert /\ ~AlertFlag(alert_status)
    /\ loop.pc = "idle"

\* C10: without a cache clear each path is loaded at most once: the first
\* call loads, later calls return the cached handle without loading, and
\* canary_model() with no canary path returns None without loading.
C10_LoadMemoized ==
    [][/\ \A p \in AllPaths :
            /\ loads'[p] <= 1
            /\ p \in DOMAIN model_cache
                 => /\ p \in DOMAIN model_cache'
                    /\ model_cache'[p] = model_cache[p]
                    /\ loads'[p] = loads[p]
            /\ (p \notin DOMAIN model_cache /\ p \in DOMAIN model_cache')
                 => loads'[p] = loads[p] + 1
       /\ ((rollback_canary \/ promote_canary) /\ canary_model_path = None)
            => (loads' = loads /\ model_cache' = model_cache)]_vars

\* the canary path was asked for by Deploy and again by Rollback, and was
\* loaded once
C10_Witness ==
    /\ result.op = "rollback" /\ result.status = "success"
    /\ pre.canary = V2 /\ loads[V2] = 1
    /\ V2 \in DOMAIN model_cache /\ model_cache[V2] = <<V2, 1>>

\* C11: Rollback with no active canary returns a reported error and leaves
\* the stable path, canary path, start time, alert flag, slowdown flag and
\* both latency sequences unchanged; with an active canary it ends with
\* canary path None, start time None and alert flag false.
C11_RollbackOutcome ==
    /\ [][(rollback_canary /\ canary_model_path = None)
             => /\ result'.status = "error"
                /\ SameDeployment
                /\ simulate_slowdown' = simulate_slowdown]_vars
    /\ []((result.op = "rollback" /\ loop.pc = "idle" /\ pre.canary # None)
             => /\ result.status = "success"
                /\ canary_model_path = None
                /\ canary_start_time = None
                /\ ~AlertFlag(alert_status))

C13_StatusIsCurrent ==
    [][root
         => /\ result'.stable_model = stable_model_path
            /\ result'.canary_model = canary_model_path
            /\ result'.canary_active = (canary_model_path # None)]_vars

\* C14: threads calling get(path) concurrently for one uncached path cause
\* one load, or at most one redundant extra load, and every caller ends up
\* with the handle that stays in the cache.
C14_ConcurrentGetLoadsOnce ==
    /\ \A p \in AllPaths : loads[p] <= 2
    /\ \A t \in GetThreads :
          (calls[t].pc = "done" /\ ~calls[t].raised /\ calls[t].path # None)
            => calls[t].value = model_cache[calls[t].path]

\* The steps that are the body of a "with state.state_lock" block
\* (admin.py 50-52, 89-91, 143-145, 173-176).
InStateLock ==
    \/ \E now \in Times : deploy_state(now)
    \/ rollback_state
    \/ promote_state
    \/ toggle_slowdown

\* C15: every access to the shared deployment state (canary path, start
\* time, alert flag, slowdown flag) is made while the state lock is held; in
\* particular checkHealth's write of the alert flag and Promote's read of it.
C15_StateUnderLock ==
    [][(\/ canary_model_path' # canary_model_path
        \/ canary_start_time' # canary_start_time
        \/ alert_status' # alert_status
        \/ simulate_slowdown' # simulate_slowdown
        \/ promote_canary)
          => InStateLock]_vars

\* C16: Deploy, Rollback and Promote change the deployment state in one
\* indivisible step: in no state is the canary path set with the start time
\* None, or the path None with the start time set; after a successful
\* Deploy(p) the canary path is p, the start time is set, the alert flag false.
C16_PathAndStartTogether ==
    /\ (canary_model_path = None) <=> (canary_start_time = None)
    /\ (result.op = "deploy" /\ result.status = "success" /\ loop.pc = "idle")
         => /\ canary_model_path = result.model_path
            /\ canary_start_time # None
            /\ ~AlertFlag(alert_status)

\* The steps that are the body of a "with state.metrics_lock" block
\* (admin.py 55-59, 93-97, 147-151, inference.py 69-70).
InMetricsLock ==
    \/ deploy_metrics \/ rollback_metrics \/ promote_metrics
    \/ \E w \in Workers : route_record(w)

C18_FailedRequestLeavesNoTrace ==
    [][\A w \in Workers :
         worker'[w] # worker[w]
           => /\ UNCHANGED deployVars
              /\ worker'[w].out # "ok" => canary_metrics' = canary_metrics
              /\ worker'[w].out = "exception" => worker'[w].pc = "idle"]_vars

\* a request routed while a canary was active has raised, and no sample of
\* it or of any other request is on record
C18_Witness ==
    \E w \in Workers :
        /\ worker[w].out = "exception" /\ worker[w].active
        /\ requests = 1
        /\ canary_metrics = EmptyMetrics
        /\ canary_start_time # None

\* C19: Promote never replaces the stable path while the alert a health
\* check stored for the canary is still set.
C19_NoPromotionPastAlert ==
    [][stable_model_path' # stable_model_path
         => ~("alert_triggered" \in DOMAIN alert_status
              /\ alert_status["alert_triggered"])]_vars

\* a Promote has been refused on the stored alert, the stable path untouched
C19_Witness ==
    /\ result.op = "promote" /\ result.status = "error"
    /\ pre.canary = V2 /\ pre.alert
    /\ stable_model_path = V1 /\ canary_model_path = V2
    /\ "alert_triggered" \in DOMAIN alert_status /\ alert_status["alert_triggered"]

\* C20: whatever the order of Promote and Rollback calls, the stable path is
\* never None: it is the initial stable path or a path deployed as canary.
C20_StablePathNeverNone ==
    /\ [](stable_model_path # None /\ stable_model_path \in {V1} \cup DeployPaths)
    /\ [][stable_model_path' # stable_model_path
            => /\ stable_model_path' = canary_model_path
               /\ canary_model_path \in DeployPaths
               /\ loads[canary_model_path] > 0]_vars

\* the canary was promoted, and a Promote and a Rollback called after it
\* found nothing to act on
C20_Witness ==
    /\ stable_model_path = V2 /\ canary_model_path = None
    /\ result.op = "rollback" /\ result.status = "error"
    /\ pre.stable = V2 /\ pre.canary = None
    /\ loop.pc = "idle"

\* C21: whenever route_prediction goes on from its model lookup to the
\* prediction, the handle it holds is not None and is the cached handle of
\* the variant it reports, also when a Rollback or Promote runs between its
\* canary-active check (inference.py 34) and the lookup (inference.py 35).
C21_RoutedHandleIsVariant ==
    [][\A w \in Workers :
         (worker[w].pc = "resolve" /\ worker'[w].pc = "predict")
           => /\ worker'[w].model # None
              /\ worker'[w].model_name =
                   (IF worker[w].use_canary THEN "canary" ELSE "stable")
              /\ LET path == IF worker[w].use_canary THEN canary_model_path
                             ELSE stable_model_path
                 IN /\ path # None
                    /\ worker'[w].model = model_cache'[path]]_vars
====
